---- MODULE Spec2Model ----
(***************************************************************************)
(* A model of aethetale's versioned retrieval index: the VersionManager    *)
(* registry and version directories, StorySetup's ingestion pipeline, the  *)
(* IndexBuilder / ContextRetriever search path, the TextSplitter and the   *)
(* CharacterManager profile store.                                         *)
(***************************************************************************)
EXTENDS Integers, Sequences, FiniteSets, TLC

(***************************************************************************)
(* Bounds of the model.                                                    *)
(***************************************************************************)
\* The wall clock runs from tick 0 to tick MaxNow.
MaxNow == 3
\* Clock ticks per second: strftime("%Y%m%d_%H%M%S") drops what is below a second.
TicksPerSecond == 2
\* A story text is ingested as 0..MaxChunks passages.
MaxChunks == 2
\* The IndexBuilder's index is let grow to MaxVectors vectors.
MaxVectors == 3
\* split_text is given the texts of up to MaxTextLen characters,
MaxTextLen == 5
\* a chunk_size of 0..MaxChunkSize
MaxChunkSize == 3
\* and a chunk_overlap of 0..MaxOverlap.
MaxOverlap == 1
\* Query embeddings are drawn from 0..MaxQuery.
MaxQuery == 1
\* The number of results asked of a search is drawn from 1..MaxK.
MaxK == 2

VARIABLES
    now,        \* datetime.now(), in ticks
    registry,   \* index_registry.json: [current_version, versions]
    dirs,       \* versions/<id>/: id -> (file name -> content)
    head,       \* the story directory's own copies (file name -> content)
    builder,    \* StorySetup.index_builder.index: the vectors added so far
    pc,         \* where the running process_story call stands
    job,        \* the running process_story call's locals
    retriever,  \* the ContextRetriever instance
    lastCall,   \* the last call that returned or raised
    sp_text,          \* split_text's argument
    sp_chunk_size,    \* TextSplitter.chunk_size
    sp_chunk_overlap, \* TextSplitter.chunk_overlap
    sp_start,         \* split_text's local start
    sp_chunks,        \* split_text's local chunks
    sp_pc,            \* "loop" while split_text runs, "done" once it has returned
    profiles_file,    \* character_profiles.json: whether it exists, and name -> profile
    committed,        \* the names character_profiles.json has held so far
    created,          \* name -> the time its profile in the file was first stored
    registry_file,    \* index_registry.json on disk: "absent", "corrupt" or "valid"
    vm_constructed,   \* whether VersionManager.__init__ has run
    save,             \* the running _save_profiles call: its position, locals and temp file
    vm,               \* VersionManager instance -> its running call: position and locals
    returned          \* the version ids create_version calls have returned

storeVars == <<now, registry, dirs, head, builder, pc, job, retriever, lastCall>>

splitVars == <<sp_text, sp_chunk_size, sp_chunk_overlap, sp_start, sp_chunks, sp_pc>>

profVars == <<profiles_file, committed, created>>

regVars == <<registry_file, vm_constructed>>

saveVars == <<save>>

concVars == <<vm, returned>>

vars == <<storeVars, splitVars, profVars, regVars, saveVars, concVars>>

\* "current_version": None
NoVersion == -1

\* datetime.now().strftime("%Y%m%d_%H%M%S"): the second the tick lies in.
strftime(t) == t \div TicksPerSecond

VersionIds == 0..strftime(MaxNow)

\* Where the clock is taken second by second it runs one second past the last
\* second of the tick clock.
LastSecond == strftime(MaxNow) + 1

Descriptions == {"Initial version"}

NoCall ==
    [op |-> "none", raised |-> "none", version_id |-> NoVersion, ok |-> FALSE,
     k |-> 0, n |-> 0, indices |-> <<>>, chunks |-> <<>>, reply |-> <<>>,
     unparsed |-> FALSE, result |-> <<>>]

Returned(op) == [NoCall EXCEPT !.op = op]

\* No _save_profiles call is running and no temporary file is left.
NoSave ==
    [pc |-> "idle", given |-> <<>>, existing |-> <<>>, merged |-> <<>>,
     previous |-> [exists |-> FALSE, data |-> <<>>],
     temp |-> [exists |-> FALSE, complete |-> FALSE]]

NoTemp == NoSave.temp

Raised(op, exc) == [NoCall EXCEPT !.op = op, !.raised = exc]

RegisteredIds(reg) == {reg.versions[i].id : i \in 1..Len(reg.versions)}

\* shutil.copytree / copy2 over glob("*"), stopped by an I/O failure: some of the
\* source's files have arrived.
PartialCopies(src) == {[f \in S |-> src[f]] : S \in SUBSET DOMAIN src}

\* Files of src written over dst (copy2, copytree with dirs_exist_ok).
CopyOver(src, dst) == src @@ dst

(***************************************************************************)
(* VersionManager                                                          *)
(***************************************************************************)
_init_registry == [current_version |-> NoVersion, versions |-> <<>>]

\* create_version copying the files of the newest version of the list, not of
\* current_version.
create_version_copies_newest(description) ==
    LET reg == registry
        version_id == strftime(now)
    IN  \/ /\ version_id \in DOMAIN dirs
           /\ lastCall' = Raised("create_version", "FileExistsError")
           /\ UNCHANGED <<registry, dirs>>
        \/ /\ version_id \notin DOMAIN dirs
           /\ dirs' = dirs @@ (version_id :>
                  IF reg.versions # <<>>
                  THEN dirs[reg.versions[Len(reg.versions)].id]
                  ELSE <<>>)
           /\ registry' =
                  [current_version |-> version_id,
                   versions |-> Append(reg.versions,
                       [id |-> version_id, description |-> description,
                        created_at |-> now])]
           /\ lastCall' = [Returned("create_version") EXCEPT !.version_id = version_id]

\* create_version with version_path.mkdir(exist_ok=True): an id already taken
\* is registered again.
create_version_exist_ok(description) ==
    LET reg == registry
        version_id == strftime(now)
        old == IF version_id \in DOMAIN dirs THEN dirs[version_id] ELSE <<>>
        src == IF reg.current_version # NoVersion
               THEN dirs[reg.current_version]
               ELSE <<>>
    IN  /\ dirs' = (version_id :> CopyOver(src, old)) @@ dirs
        /\ registry' =
               [current_version |-> version_id,
                versions |-> Append(reg.versions,
                    [id |-> version_id, description |-> description,
                     created_at |-> now])]
        /\ lastCall' = [Returned("create_version") EXCEPT !.version_id = version_id]

\* create_version with the registry saved before the copy.
create_version_registers_first(description) ==
    LET reg == registry
        version_id == strftime(now)
        entered == [current_version |-> version_id,
                    versions |-> Append(reg.versions,
                        [id |-> version_id, description |-> description,
                         created_at |-> now])]
    IN  \/ /\ version_id \in DOMAIN dirs
           /\ lastCall' = Raised("create_version", "FileExistsError")
           /\ UNCHANGED <<registry, dirs>>
        \/ /\ version_id \notin DOMAIN dirs
           /\ reg.current_version # NoVersion
           /\ \E part \in PartialCopies(dirs[reg.current_version]) :
                  dirs' = dirs @@ (version_id :> part)
           /\ registry' = entered
           /\ lastCall' = Raised("create_version", "OSError")
        \/ /\ version_id \notin DOMAIN dirs
           /\ dirs' = dirs @@ (version_id :>
                  IF reg.current_version # NoVersion
                  THEN dirs[reg.current_version]
                  ELSE <<>>)
           /\ registry' = entered
           /\ lastCall' = [Returned("create_version") EXCEPT !.version_id = version_id]

create_version(description) ==
    LET reg == registry
        version_id == strftime(now)
    IN  \/ \* version_path.mkdir(): the directory exists
           /\ version_id \in DOMAIN dirs
           /\ lastCall' = Raised("create_version", "FileExistsError")
           /\ UNCHANGED <<registry, dirs>>
        \/ \* the copy of the current version stops on an I/O failure
           /\ version_id \notin DOMAIN dirs
           /\ reg.current_version # NoVersion
           /\ \E part \in PartialCopies(dirs[reg.current_version]) :
                  dirs' = dirs @@ (version_id :> part)
           /\ lastCall' = Raised("create_version", "OSError")
           /\ UNCHANGED registry
        \/ /\ version_id \notin DOMAIN dirs
           /\ dirs' = dirs @@ (version_id :>
                  IF reg.current_version # NoVersion
                  THEN dirs[reg.current_version]
                  ELSE <<>>)
           /\ registry' =
                  [current_version |-> version_id,
                   versions |-> Append(reg.versions,
                       [id |-> version_id, description |-> description,
                        created_at |-> now])]
           /\ lastCall' = [Returned("create_version") EXCEPT !.version_id = version_id]

\* revert_to_version dropping the versions registered after the one reverted to.
revert_to_version_truncates(version_id) ==
    LET reg == registry
        version_exists == \E i \in 1..Len(reg.versions) : reg.versions[i].id = version_id
    IN  IF version_exists
        THEN /\ head' = CopyOver(dirs[version_id], head)
             /\ registry' =
                    [current_version |-> version_id,
                     versions |-> SubSeq(reg.versions, 1,
                         CHOOSE i \in 1..Len(reg.versions) :
                             reg.versions[i].id = version_id)]
             /\ lastCall' = [Returned("revert_to_version") EXCEPT
                                !.version_id = version_id, !.ok = TRUE]
        ELSE /\ lastCall' = [Returned("revert_to_version") EXCEPT
                                !.version_id = version_id, !.ok = FALSE]
             /\ UNCHANGED <<registry, head>>

\* revert_to_version repointing current_version without copying the files.
revert_to_version_repoints_only(version_id) ==
    LET reg == registry
        version_exists == \E i \in 1..Len(reg.versions) : reg.versions[i].id = version_id
    IN  IF version_exists
        THEN /\ registry' = [reg EXCEPT !.current_version = version_id]
             /\ lastCall' = [Returned("revert_to_version") EXCEPT
                                !.version_id = version_id, !.ok = TRUE]
             /\ UNCHANGED head
        ELSE /\ lastCall' = [Returned("revert_to_version") EXCEPT
                                !.version_id = version_id, !.ok = FALSE]
             /\ UNCHANGED <<registry, head>>

\* revert_to_version without the check that the version is registered.
revert_to_version_unchecked(version_id) ==
    LET reg == registry
        src == IF version_id \in DOMAIN dirs THEN dirs[version_id] ELSE <<>>
    IN  /\ head' = CopyOver(src, head)
        /\ registry' = [reg EXCEPT !.current_version = version_id]
        /\ lastCall' = [Returned("revert_to_version") EXCEPT
                           !.version_id = version_id, !.ok = TRUE]

revert_to_version(version_id) ==
    LET reg == registry
        version_exists == \E i \in 1..Len(reg.versions) : reg.versions[i].id = version_id
    IN  \/ /\ ~version_exists
           /\ lastCall' = [Returned("revert_to_version") EXCEPT
                              !.version_id = version_id, !.ok = FALSE]
           /\ UNCHANGED <<registry, head>>
        \/ \* the copy to the story directory stops on an I/O failure
           /\ version_exists
           /\ \E part \in PartialCopies(dirs[version_id]) :
                  /\ part # dirs[version_id]
                  /\ head' = CopyOver(part, head)
           /\ lastCall' = [Raised("revert_to_version", "OSError") EXCEPT
                              !.version_id = version_id]
           /\ UNCHANGED registry
        \/ /\ version_exists
           /\ head' = CopyOver(dirs[version_id], head)
           /\ registry' = [reg EXCEPT !.current_version = version_id]
           /\ lastCall' = [Returned("revert_to_version") EXCEPT
                              !.version_id = version_id, !.ok = TRUE]

get_current_version == registry.current_version

list_versions == registry.versions

\* _load_registry: open() raises on a missing file, json.load on an unparseable one.
_load_registry_raises ==
    IF registry_file = "absent" THEN "FileNotFoundError"
    ELSE IF registry_file = "corrupt" THEN "JSONDecodeError"
    ELSE "none"

\* VersionManager.__init__: the registry is initialized only if the file is missing.
VersionManager_init ==
    /\ vm_constructed' = TRUE
    /\ IF registry_file = "absent"
       THEN /\ registry' = _init_registry
            /\ registry_file' = "valid"
       ELSE UNCHANGED <<registry, registry_file>>
    /\ lastCall' = Returned("VersionManager")

(***************************************************************************)
(* TextSplitter / TextEmbedder as the ingestion pipeline sees them: a text  *)
(* is taken by the number n of passages it splits into; its i-th passage    *)
(* has text <<n, i>>.  The embedding model is an opaque function from a     *)
(* passage's text to a vector, here a vector of one integer coordinate.     *)
(***************************************************************************)
Texts == 0..MaxChunks

split_story(text) ==
    [i \in 1..text |-> [text |-> <<text, i>>, start_pos |-> i - 1, end_pos |-> i]]

encode(text) == 2 * text[1] + text[2]

embed_chunks(chunks) ==
    [i \in 1..Len(chunks) |->
        [text |-> chunks[i].text, start_pos |-> chunks[i].start_pos,
         end_pos |-> chunks[i].end_pos, embedding |-> encode(chunks[i].text)]]

(***************************************************************************)
(* IndexBuilder (faiss.IndexFlatL2)                                        *)
(***************************************************************************)
\* The distance faiss reports for a result slot it could not fill.
FLT_MAX == 10 ^ 6

build_index(index, chunks) ==
    index \o [i \in 1..Len(chunks) |-> chunks[i].embedding]

save_metadata(chunks) ==
    [i \in 1..Len(chunks) |->
        [text |-> chunks[i].text, start_pos |-> chunks[i].start_pos,
         end_pos |-> chunks[i].end_pos]]

L2(a, b) == (a - b) * (a - b)

MinDistance(index, q, S) ==
    CHOOSE d \in {L2(index[i], q) : i \in S} :
        \A e \in {L2(index[i], q) : i \in S} : d <= e

\* The ways to list the vectors S of the index by ascending distance from q:
\* faiss leaves the order of equally distant vectors open.
RECURSIVE Nearest(_, _, _)
Nearest(index, q, S) ==
    IF S = {} THEN {<<>>}
    ELSE UNION {{<<i>> \o rest : rest \in Nearest(index, q, S \ {i})} :
                 i \in {j \in S : L2(index[j], q) = MinDistance(index, q, S)}}

\* index.search(q, k): k (distance, ordinal) slots, the ordinals counted from 0;
\* the slots past the index size hold ordinal -1 and distance FLT_MAX.
faiss_search(index, q, k) ==
    {[distances |-> [i \in 1..k |->
                        IF i <= Len(index) THEN L2(index[ord[i]], q) ELSE FLT_MAX],
      indices |-> [i \in 1..k |-> IF i <= Len(index) THEN ord[i] - 1 ELSE -1]] :
        ord \in Nearest(index, q, 1..Len(index))}

\* IndexBuilder.search: indices[0].tolist()
search(index, q, k) == {r.indices : r \in faiss_search(index, q, k)}

(***************************************************************************)
(* ContextRetriever                                                        *)
(***************************************************************************)
\* list[idx] in Python: a negative idx counts from the end.
PyItem(list, idx) == IF idx >= 0 THEN list[idx + 1] ELSE list[Len(list) + idx + 1]

PyInRange(list, idx) == -Len(list) <= idx /\ idx < Len(list)

\* The loop of retrieve_context over zip(indices[0], distances[0]).
RECURSIVE collect_chunks(_, _, _)
collect_chunks(found, metadata, i) ==
    IF i > Len(found.indices) THEN <<>>
    ELSE IF found.indices[i] < Len(metadata)
         THEN <<[text |-> PyItem(metadata, found.indices[i]).text,
                 start_pos |-> PyItem(metadata, found.indices[i]).start_pos,
                 end_pos |-> PyItem(metadata, found.indices[i]).end_pos,
                 similarity_score |-> 1 - found.distances[i]]>>
              \o collect_chunks(found, metadata, i + 1)
         ELSE collect_chunks(found, metadata, i + 1)

\* Some slot passes the guard idx < len(metadata) and then metadata[idx] raises.
raises_IndexError(found, metadata) ==
    \E i \in 1..Len(found.indices) :
        /\ found.indices[i] < Len(metadata)
        /\ ~PyInRange(metadata, found.indices[i])

\* _load_index answering a missing current version with an empty index.
_load_index_empty_without_version ==
    LET current_version == get_current_version
    IN  IF current_version # NoVersion
           /\ {"faiss_index/index.faiss", "faiss_index/metadata.json"}
                  \subseteq DOMAIN dirs[current_version]
        THEN /\ retriever' =
                    [constructed |-> TRUE,
                     index |-> dirs[current_version]["faiss_index/index.faiss"],
                     metadata |-> dirs[current_version]["faiss_index/metadata.json"],
                     version |-> current_version]
             /\ lastCall' = [Returned("ContextRetriever") EXCEPT
                                !.version_id = current_version]
        ELSE /\ retriever' = [constructed |-> TRUE, index |-> <<>>,
                              metadata |-> <<>>, version |-> NoVersion]
             /\ lastCall' = Returned("ContextRetriever")

_load_index ==
    LET current_version == get_current_version
    IN  \/ /\ current_version = NoVersion
           /\ lastCall' = Raised("ContextRetriever", "ValueError")
           /\ UNCHANGED retriever
        \/ /\ current_version # NoVersion
           /\ "faiss_index/index.faiss" \notin DOMAIN dirs[current_version]
           /\ lastCall' = Raised("ContextRetriever", "RuntimeError")
           /\ UNCHANGED retriever
        \/ /\ current_version # NoVersion
           /\ "faiss_index/index.faiss" \in DOMAIN dirs[current_version]
           /\ "faiss_index/metadata.json" \notin DOMAIN dirs[current_version]
           /\ lastCall' = Raised("ContextRetriever", "FileNotFoundError")
           /\ UNCHANGED retriever
        \/ /\ current_version # NoVersion
           /\ "faiss_index/index.faiss" \in DOMAIN dirs[current_version]
           /\ "faiss_index/metadata.json" \in DOMAIN dirs[current_version]
           /\ retriever' =
                  [constructed |-> TRUE,
                   index |-> dirs[current_version]["faiss_index/index.faiss"],
                   metadata |-> dirs[current_version]["faiss_index/metadata.json"],
                   version |-> current_version]
           /\ lastCall' = [Returned("ContextRetriever") EXCEPT
                              !.version_id = current_version]

retrieve_context(query, num_chunks) ==
    \E found \in faiss_search(retriever.index, query, num_chunks) :
        IF raises_IndexError(found, retriever.metadata)
        THEN lastCall' = [Raised("retrieve_context", "IndexError") EXCEPT
                             !.k = num_chunks, !.n = Len(retriever.index)]
        ELSE lastCall' = [Returned("retrieve_context") EXCEPT
                             !.k = num_chunks, !.n = Len(retriever.index),
                             !.indices = found.indices,
                             !.chunks = collect_chunks(found, retriever.metadata, 1)]

(***************************************************************************)
(* TextSplitter                                                            *)
(***************************************************************************)
\* How far _find_sentence_boundary looks: range(position, position + 100).
Window == 100

sentence_endings == {".", "!", "?"}

Min(a, b) == IF a <= b THEN a ELSE b

Max(a, b) == IF a >= b THEN a ELSE b

SetMin(S) == CHOOSE x \in S : \A y \in S : x <= y

SetMax(S) == CHOOSE x \in S : \A y \in S : x >= y

\* text[a:b], the positions counted from 0
Slice(text, a, b) == IF b <= a THEN <<>> ELSE SubSeq(text, a + 1, b)

_find_sentence_boundary(text, position, direction) ==
    IF direction = "forward"
    THEN LET hits == {i \in position..(Min(Len(text), position + Window) - 1) :
                         text[i + 1] \in sentence_endings}
         IN  IF hits # {} THEN SetMin(hits) + 1 ELSE position
    ELSE LET hits == {i \in (Max(-1, position - Window) + 1)..(position - 1) :
                         i >= 0 /\ text[i + 1] \in sentence_endings}
         IN  IF hits # {} THEN SetMax(hits) + 1 ELSE position

\* chunk_end without the test end < len(text): the end is always moved back to
\* a sentence boundary.
chunk_end_always_snaps(text, start, chunk_size) ==
    _find_sentence_boundary(text, Min(start + chunk_size, Len(text)), "backward")

\* The end of the chunk that starts at start.
chunk_end(text, start, chunk_size) ==
    LET end == Min(start + chunk_size, Len(text))
    IN  IF end < Len(text)
        THEN _find_sentence_boundary(text, end, "backward")
        ELSE end

\* The start of the chunk after the one that ends at end.
next_start(text, end, chunk_overlap) ==
    LET start == Max(end - chunk_overlap, end)
    IN  IF start < end
        THEN _find_sentence_boundary(text, start, "forward")
        ELSE start

\* A pass of the loop without the test that the next start has advanced.
SplitIteration_without_progress_test ==
    /\ sp_pc = "loop"
    /\ sp_start < Len(sp_text)
    /\ Len(sp_chunks) <= Len(sp_text)
    /\ LET end == chunk_end(sp_text, sp_start, sp_chunk_size)
           chunk == [text |-> Slice(sp_text, sp_start, end),
                     start_pos |-> sp_start, end_pos |-> end]
           start == next_start(sp_text, end, sp_chunk_overlap)
       IN  /\ sp_chunks' = Append(sp_chunks, chunk)
           /\ sp_start' = start
           /\ sp_pc' = IF start >= Len(sp_text) THEN "done" ELSE "loop"
    /\ UNCHANGED <<sp_text, sp_chunk_size, sp_chunk_overlap, storeVars, profVars, regVars,
                   saveVars, concVars>>

\* One pass of split_text's while loop.
SplitIteration ==
    /\ sp_pc = "loop"
    /\ sp_start < Len(sp_text)
    /\ LET end == chunk_end(sp_text, sp_start, sp_chunk_size)
           chunk == [text |-> Slice(sp_text, sp_start, end),
                     start_pos |-> sp_start, end_pos |-> end]
           start == next_start(sp_text, end, sp_chunk_overlap)
       IN  /\ sp_chunks' = Append(sp_chunks, chunk)
           /\ sp_start' = start
           /\ sp_pc' = IF start >= Len(sp_text) \/ start <= chunk.start_pos
                       THEN "done"
                       ELSE "loop"
    /\ UNCHANGED <<sp_text, sp_chunk_size, sp_chunk_overlap, storeVars, profVars, regVars, saveVars, concVars>>

\* The while condition fails: split_text returns chunks.
SplitReturn ==
    /\ sp_pc = "loop"
    /\ sp_start >= Len(sp_text)
    /\ sp_pc' = "done"
    /\ UNCHANGED <<sp_text, sp_chunk_size, sp_chunk_overlap, sp_start, sp_chunks,
                   storeVars, profVars, regVars, saveVars, concVars>>

Characters == {"a", "."}

InputTexts == UNION {[1..n -> Characters] : n \in 0..MaxTextLen}

(***************************************************************************)
(* CharacterProfile and CharacterManager.  A JSON object is a function     *)
(* from its keys; an Optional value is <<>> for None and <<v>> for v.      *)
(***************************************************************************)
None == <<>>

Truthy(optional) == optional # None /\ optional[1] # ""

Get(d, key, default) == IF key \in DOMAIN d THEN d[key] ELSE default

Range(list) == {list[i] : i \in 1..Len(list)}

\* list(set(...)): the members of S, each once, in the order the set yields them
RECURSIVE list_of_set(_)
list_of_set(S) ==
    IF S = {} THEN <<>>
    ELSE LET x == CHOOSE y \in S : TRUE
         IN  <<x>> \o list_of_set(S \ {x})

\* list({(rel.relation_type, rel.name): rel for rel in family}.values()): one
\* relation per (relation_type, name), at the place of its first occurrence
RECURSIVE dedup_family(_, _)
dedup_family(family, i) ==
    IF i > Len(family) THEN <<>>
    ELSE IF \E j \in 1..(i - 1) :
                /\ family[j].relation_type = family[i].relation_type
                /\ family[j].name = family[i].name
         THEN dedup_family(family, i + 1)
         ELSE <<[name |-> family[i].name,
                 relation_type |-> family[i].relation_type]>>
              \o dedup_family(family, i + 1)

\* CharacterProfile.from_dict raises KeyError without data["name"], data["role"].
from_dict_raises(data) == ~({"name", "role"} \subseteq DOMAIN data)

from_dict(data, t) ==
    [name |-> data["name"],
     aliases |-> Get(data, "aliases", <<>>),
     role |-> data["role"],
     occupation |-> Get(data, "occupation", ""),
     personality_traits |-> Get(data, "personality_traits", <<>>),
     goals |-> Get(data, "goals", <<>>),
     fears |-> Get(data, "fears", <<>>),
     lovers |-> Get(data, "lovers", <<>>),
     friends |-> Get(data, "friends", <<>>),
     enemies |-> Get(data, "enemies", <<>>),
     family |-> Get(data, "family", <<>>),
     key_events |-> Get(data, "key_events", <<>>),
     style_embedding |-> Get(data, "style_embedding", None),
     profile_text |-> Get(data, "profile_text", None),
     created_at |-> Get(data, "created_at", t),
     updated_at |-> Get(data, "updated_at", t)]

\* merged_data with aliases as the values only one of the two profiles has.
merge_profile_exclusive_aliases(name, existing_profile, new_profile, t) ==
    [name |-> name,
     aliases |-> list_of_set(
         (Range(existing_profile.aliases) \ Range(new_profile.aliases))
             \cup (Range(new_profile.aliases) \ Range(existing_profile.aliases))),
     role |-> existing_profile.role,
     occupation |-> existing_profile.occupation,
     personality_traits |-> list_of_set(Range(
         existing_profile.personality_traits \o new_profile.personality_traits)),
     goals |-> list_of_set(Range(existing_profile.goals \o new_profile.goals)),
     fears |-> list_of_set(Range(existing_profile.fears \o new_profile.fears)),
     lovers |-> list_of_set(Range(existing_profile.lovers \o new_profile.lovers)),
     friends |-> list_of_set(Range(existing_profile.friends \o new_profile.friends)),
     enemies |-> list_of_set(Range(existing_profile.enemies \o new_profile.enemies)),
     family |-> dedup_family(existing_profile.family \o new_profile.family, 1),
     key_events |-> list_of_set(Range(
         existing_profile.key_events \o new_profile.key_events)),
     profile_text |-> existing_profile.profile_text,
     created_at |-> existing_profile.created_at,
     updated_at |-> t,
     style_embedding |-> None]

\* merged_data with the new profile's lists in place of the unions.
merge_profile_new_replaces(name, existing_profile, new_profile, t) ==
    [name |-> name,
     aliases |-> list_of_set(Range(new_profile.aliases)),
     role |-> new_profile.role,
     occupation |-> new_profile.occupation,
     personality_traits |-> list_of_set(Range(new_profile.personality_traits)),
     goals |-> list_of_set(Range(new_profile.goals)),
     fears |-> list_of_set(Range(new_profile.fears)),
     lovers |-> list_of_set(Range(new_profile.lovers)),
     friends |-> list_of_set(Range(new_profile.friends)),
     enemies |-> list_of_set(Range(new_profile.enemies)),
     family |-> dedup_family(new_profile.family, 1),
     key_events |-> list_of_set(Range(new_profile.key_events)),
     profile_text |-> new_profile.profile_text,
     created_at |-> existing_profile.created_at,
     updated_at |-> t,
     style_embedding |-> None]

\* The merged_data of _save_profiles for a name that has a stored profile.
merge_profile(name, existing_profile, new_profile, t) ==
    [name |-> name,
     aliases |-> list_of_set(Range(existing_profile.aliases \o new_profile.aliases)),
     role |-> IF Len(new_profile.role) > Len(existing_profile.role)
              THEN new_profile.role
              ELSE existing_profile.role,
     occupation |-> IF Len(new_profile.occupation) > Len(existing_profile.occupation)
                    THEN new_profile.occupation
                    ELSE existing_profile.occupation,
     personality_traits |-> list_of_set(Range(
         existing_profile.personality_traits \o new_profile.personality_traits)),
     goals |-> list_of_set(Range(existing_profile.goals \o new_profile.goals)),
     fears |-> list_of_set(Range(existing_profile.fears \o new_profile.fears)),
     lovers |-> list_of_set(Range(existing_profile.lovers \o new_profile.lovers)),
     friends |-> list_of_set(Range(existing_profile.friends \o new_profile.friends)),
     enemies |-> list_of_set(Range(existing_profile.enemies \o new_profile.enemies)),
     family |-> dedup_family(existing_profile.family \o new_profile.family, 1),
     key_events |-> list_of_set(Range(
         existing_profile.key_events \o new_profile.key_events)),
     profile_text |-> IF Truthy(new_profile.profile_text)
                      THEN new_profile.profile_text
                      ELSE existing_profile.profile_text,
     created_at |-> existing_profile.created_at,
     updated_at |-> t,
     style_embedding |-> None]

\* The nested reply {"characters": [...]} brought to the root format.
from_nested(characters, t) ==
    [name \in {characters[i]["name"] : i \in 1..Len(characters)} |->
        LET char == characters[CHOOSE i \in 1..Len(characters) :
                        /\ characters[i]["name"] = name
                        /\ \A j \in (i + 1)..Len(characters) :
                               characters[j]["name"] # name]
        IN  [name |-> char["name"],
             role |-> Get(char, "role", "character"),
             profile_text |-> <<Get(char, "description", "")>>,
             personality_traits |-> Get(char, "traits", <<>>),
             aliases |-> Get(char, "aliases", <<>>),
             occupation |-> Get(char, "occupation", ""),
             goals |-> Get(char, "goals", <<>>),
             fears |-> Get(char, "fears", <<>>),
             lovers |-> Get(char, "lovers", <<>>),
             friends |-> Get(char, "friends", <<>>),
             enemies |-> Get(char, "enemies", <<>>),
             family |-> Get(char, "family", <<>>),
             key_events |-> Get(char, "key_events", <<>>),
             created_at |-> t,
             updated_at |-> t]]

\* A profile stored for a name that had none: the data as given, its family
\* relations brought to {name, relation_type}.
new_profile_data(profile_data) ==
    IF "family" \in DOMAIN profile_data /\ profile_data["family"] # <<>>
    THEN [profile_data EXCEPT !["family"] =
             [i \in 1..Len(@) |->
                 [name |-> @[i].name, relation_type |-> @[i].relation_type]]]
    ELSE profile_data

root_format(profiles, t) ==
    IF "characters" \in DOMAIN profiles
    THEN from_nested(profiles["characters"], t)
    ELSE profiles

\* The merged_profiles _save_profiles writes.
merged_profiles(existing_profiles, profiles, t) ==
    [name \in DOMAIN profiles |->
        IF name \in DOMAIN existing_profiles
        THEN merge_profile(name, from_dict(existing_profiles[name], t),
                           from_dict(profiles[name], t), t)
        ELSE new_profile_data(profiles[name])]

_save_profiles(given, t) ==
    LET existing_profiles == IF profiles_file.exists THEN profiles_file.data ELSE <<>>
        profiles == root_format(given, t)
    IN  \/ \* from_dict raises on a stored or a new profile that is to be merged
           /\ \E name \in DOMAIN profiles \cap DOMAIN existing_profiles :
                  \/ from_dict_raises(existing_profiles[name])
                  \/ from_dict_raises(profiles[name])
           /\ lastCall' = [Raised("update_character_profiles", "KeyError") EXCEPT
                              !.reply = given]
           /\ UNCHANGED profiles_file
        \/ \* writing the temporary file fails: it is removed again
           /\ lastCall' = [Raised("update_character_profiles", "OSError") EXCEPT
                              !.reply = given]
           /\ UNCHANGED profiles_file
        \/ /\ \A name \in DOMAIN profiles \cap DOMAIN existing_profiles :
                  /\ ~from_dict_raises(existing_profiles[name])
                  /\ ~from_dict_raises(profiles[name])
           /\ profiles_file' =
                  [exists |-> TRUE,
                   data |-> merged_profiles(existing_profiles, profiles, t)]
           /\ lastCall' = [Returned("update_character_profiles") EXCEPT
                              !.ok = TRUE, !.reply = given]

\* update_character_profiles: the reply of the analysis is parsed and saved.
update_character_profiles(reply) ==
    IF ~reply.parses
    THEN /\ lastCall' = [Returned("update_character_profiles") EXCEPT
                            !.ok = FALSE, !.unparsed = TRUE]
         /\ UNCHANGED profiles_file
    ELSE _save_profiles(reply.json, now)

\* The replies the analysis is taken to give.
Alice1 ==
    [name |-> "Alice", role |-> "hero", aliases |-> <<"Al">>, friends |-> <<"Bob">>,
     family |-> <<[name |-> "Carol", relation_type |-> "parent"]>>]

Alice2 ==
    [name |-> "Alice", role |-> "heroine", occupation |-> "smith",
     aliases |-> <<"Al", "Ally">>, personality_traits |-> <<"brave">>,
     goals |-> <<"forge the blade">>, lovers |-> <<"Dan">>,
     family |-> <<[name |-> "Carol", relation_type |-> "parent"],
                  [name |-> "Eve", relation_type |-> "sibling"]>>,
     key_events |-> <<"the duel">>, profile_text |-> <<"A smith.">>]

Bob1 ==
    [name |-> "Bob", role |-> "rival", occupation |-> "knight",
     fears |-> <<"fire">>, enemies |-> <<"Alice">>]

BobNoRole == [name |-> "Bob", aliases |-> <<"Rob">>]

NestedAlice ==
    [characters |-> <<[name |-> "Alice", description |-> "The smith of the vale.",
                       traits |-> <<"kind">>]>>]

Replies ==
    {[parses |-> FALSE, json |-> <<>>],
     [parses |-> TRUE, json |-> ("Alice" :> Alice1)],
     [parses |-> TRUE, json |-> ("Alice" :> Alice2)],
     [parses |-> TRUE, json |-> ("Bob" :> Bob1)],
     [parses |-> TRUE, json |-> ("Bob" :> BobNoRole)],
     [parses |-> TRUE, json |-> ("Alice" :> Alice1 @@ "Bob" :> Bob1)],
     [parses |-> TRUE, json |-> NestedAlice]}

\* When each profile of the file was first stored: a name new to the file is
\* stored now, a name the file held keeps its time.
first_stored(before, after) ==
    [name \in DOMAIN after |->
        IF name \in DOMAIN before THEN created[name] ELSE now]

UpdateCharacterProfiles ==
    /\ \E reply \in Replies : update_character_profiles(reply)
    /\ committed' = committed \cup DOMAIN profiles_file'.data
    /\ created' = first_stored(profiles_file.data, profiles_file'.data)
    /\ UNCHANGED <<now, registry, dirs, head, builder, pc, job, retriever, splitVars,
                   regVars, saveVars, concVars>>

(***************************************************************************)
(* The read and extraction entry points.  An LLM reply is taken by whether *)
(* json.loads accepts it as it is (direct), whether a JSON object can be   *)
(* recovered from it (recoverable), and the object it holds (json).        *)
(***************************************************************************)
\* get_character_network(): per stored profile, the list friends + enemies +
\* family, here as its leading names and its trailing family entries.
get_character_network ==
    IF ~profiles_file.exists
    THEN <<>>
    ELSE [character \in DOMAIN profiles_file.data |->
             LET profile == profiles_file.data[character]
             IN  [names |-> Get(profile, "friends", <<>>)
                                \o Get(profile, "enemies", <<>>),
                  relations |-> Get(profile, "family", <<>>)]]

\* CharacterProfile(name=name, role=data.get('role', ''), ...): pydantic rejects
\* a role that is not a string (JSON null); __post_init__ is not a hook of
\* BaseModel and its checks of name and role never run.
CharacterProfile_raises(name, data) == "role" \in DOMAIN data /\ data["role"] = None

CharacterProfile_new(name, data) ==
    [name |-> name,
     role |-> IF "role" \in DOMAIN data THEN data["role"][1] ELSE ""]

\* extract_character_profiles on the reply content
extract_character_profiles(content) ==
    IF ~content.direct /\ ~content.recoverable
    THEN lastCall' = [Raised("extract_character_profiles", "ValueError") EXCEPT
                         !.unparsed = TRUE]
    ELSE LET profiles_data == content.json
         IN  IF \E name \in DOMAIN profiles_data :
                    CharacterProfile_raises(name, profiles_data[name])
             THEN lastCall' = [Raised("extract_character_profiles", "ValidationError")
                                 EXCEPT !.reply = profiles_data]
             ELSE lastCall' = [Returned("extract_character_profiles") EXCEPT
                                 !.ok = TRUE, !.reply = profiles_data,
                                 !.result = [name \in DOMAIN profiles_data |->
                                     CharacterProfile_new(name, profiles_data[name])]]

\* extract_story_elements on the reply content: json.loads or the error object
extract_story_elements(content) ==
    IF content.direct
    THEN lastCall' = [Returned("extract_story_elements") EXCEPT
                         !.ok = TRUE, !.reply = content.json]
    ELSE lastCall' = [Returned("extract_story_elements") EXCEPT
                         !.ok = FALSE, !.unparsed = ~content.recoverable]

\* The batches of entities a reply is taken to hold: a role is an optional string.
ExtractBatches ==
    {("Alice" :> [role |-> <<"hero">>]),
     ("Alice" :> [role |-> <<"hero">>] @@ "" :> [role |-> <<"ghost">>]),
     ("Alice" :> [role |-> <<"hero">>] @@ "Bob" :> [aliases |-> <<"Rob">>]),
     ("Alice" :> [role |-> <<"hero">>] @@ "Carol" :> [role |-> None])}

ExtractContents ==
    {[direct |-> d, recoverable |-> TRUE, json |-> batch] :
        d \in BOOLEAN, batch \in ExtractBatches}
    \cup {[direct |-> FALSE, recoverable |-> FALSE, json |-> <<>>]}

GetCharacterNetwork ==
    /\ lastCall' = [Returned("get_character_network") EXCEPT
                       !.result = get_character_network]
    /\ UNCHANGED <<now, registry, dirs, head, builder, pc, job, retriever, splitVars,
                   profVars, regVars, saveVars, concVars>>

ExtractCharacterProfiles ==
    /\ \E content \in ExtractContents : extract_character_profiles(content)
    /\ UNCHANGED <<now, registry, dirs, head, builder, pc, job, retriever, splitVars,
                   profVars, regVars, saveVars, concVars>>

ExtractStoryElements ==
    /\ \E content \in ExtractContents : extract_story_elements(content)
    /\ UNCHANGED <<now, registry, dirs, head, builder, pc, job, retriever, splitVars,
                   profVars, regVars, saveVars, concVars>>

(***************************************************************************)
(* _save_profiles step by step: load, merge and serialize, write the       *)
(* temporary file, rename it over character_profiles.json; a step may fail *)
(* and the process may die between any two steps.                          *)
(***************************************************************************)
ParsedReplies == {reply.json : reply \in {r \in Replies : r.parses}}

\* _save_profiles(profiles) is entered.
SaveEnter ==
    /\ save.pc \in {"idle", "crashed"}
    /\ \E given \in ParsedReplies :
           save' = [save EXCEPT !.pc = "load", !.given = given,
                                !.existing = <<>>, !.merged = <<>>,
                                !.previous = profiles_file]
    /\ UNCHANGED <<storeVars, splitVars, profVars, regVars, concVars>>

\* existing_profiles = json.load(f) if the file exists
SaveLoad ==
    /\ save.pc = "load"
    /\ save' = [save EXCEPT !.pc = "merge",
                            !.existing = IF profiles_file.exists
                                         THEN profiles_file.data
                                         ELSE <<>>]
    /\ UNCHANGED <<storeVars, splitVars, profVars, regVars, concVars>>

\* merged_profiles is built and serialized with json.dumps, or from_dict raises.
SaveMerge ==
    /\ save.pc = "merge"
    /\ LET profiles == root_format(save.given, now)
       IN  IF \E name \in DOMAIN profiles \cap DOMAIN save.existing :
                  \/ from_dict_raises(save.existing[name])
                  \/ from_dict_raises(profiles[name])
           THEN /\ save' = [NoSave EXCEPT !.temp = save.temp]
                /\ lastCall' = [Raised("_save_profiles", "KeyError") EXCEPT
                                   !.reply = save.given]
           ELSE /\ save' = [save EXCEPT
                               !.pc = "write",
                               !.merged = merged_profiles(save.existing, profiles, now)]
                /\ UNCHANGED lastCall
    /\ UNCHANGED <<now, registry, dirs, head, builder, pc, job, retriever, splitVars,
                   profVars, regVars, concVars>>

\* open(temp_path, 'w') and f.write(json_str), written straight to
\* character_profiles.json instead of the temporary file.
SaveWrite_in_place ==
    /\ save.pc = "write"
    /\ \/ /\ save' = [save EXCEPT !.pc = "cleanup"]
          /\ profiles_file' = [exists |-> TRUE, data |-> <<>>]
       \/ /\ save' = [save EXCEPT !.pc = "rename",
                                   !.temp = [exists |-> TRUE, complete |-> TRUE]]
          /\ profiles_file' = [exists |-> TRUE, data |-> save.merged]
    /\ UNCHANGED <<storeVars, splitVars, committed, created, regVars, concVars>>

\* open(temp_path, 'w') and f.write(json_str)
SaveWriteTemp ==
    /\ save.pc = "write"
    /\ \/ \* open fails: a temporary file left by an earlier call stays as it is
          save' = [save EXCEPT !.pc = "cleanup"]
       \/ \* the write stops part-way
          save' = [save EXCEPT !.pc = "cleanup",
                               !.temp = [exists |-> TRUE, complete |-> FALSE]]
       \/ save' = [save EXCEPT !.pc = "rename",
                               !.temp = [exists |-> TRUE, complete |-> TRUE]]
    /\ UNCHANGED <<storeVars, splitVars, profVars, regVars, concVars>>

\* temp_path.replace(self.profiles_path), and _save_profiles returns
SaveRename ==
    /\ save.pc = "rename"
    /\ \/ /\ save' = [save EXCEPT !.pc = "cleanup"]
          /\ UNCHANGED <<profiles_file, committed, created, lastCall>>
       \/ /\ profiles_file' = [exists |-> TRUE, data |-> save.merged]
          /\ committed' = committed \cup DOMAIN save.merged
          /\ created' = first_stored(profiles_file.data, save.merged)
          /\ save' = NoSave
          /\ lastCall' = [Returned("_save_profiles") EXCEPT
                             !.ok = TRUE, !.reply = save.given]
    /\ UNCHANGED <<now, registry, dirs, head, builder, pc, job, retriever, splitVars,
                   regVars, concVars>>

\* except Exception: temp_path.unlink() if it exists; raise
SaveCleanup ==
    /\ save.pc = "cleanup"
    /\ save' = NoSave
    /\ lastCall' = [Raised("_save_profiles", "OSError") EXCEPT !.reply = save.given]
    /\ UNCHANGED <<now, registry, dirs, head, builder, pc, job, retriever, splitVars,
                   profVars, regVars, concVars>>

\* The process dies inside _save_profiles: the files stay as they are.
SaveCrash ==
    /\ save.pc \in {"load", "merge", "write", "rename", "cleanup"}
    /\ save' = [NoSave EXCEPT !.pc = "crashed", !.temp = save.temp,
                              !.previous = save.previous]
    /\ UNCHANGED <<storeVars, splitVars, profVars, regVars, concVars>>

(***************************************************************************)
(* Two VersionManager instances on one story.  A call is taken in the      *)
(* three steps in which it touches the disk: _load_registry, the directory *)
(* copy, _save_registry.  Each instance holds the registry it loaded in a  *)
(* local and writes that local back.                                       *)
(***************************************************************************)
Instances == {1, 2}

NoRunningCall ==
    [pc |-> "idle", op |-> "none", registry |-> _init_registry,
     version_id |-> NoVersion, description |-> ""]

\* registry = self._load_registry(); version_id = datetime.now().strftime(...)
CreateVersionLoad(i) ==
    /\ vm[i].pc = "idle"
    /\ \E description \in Descriptions :
           vm' = [vm EXCEPT ![i] =
                     [pc |-> "loaded", op |-> "create_version", registry |-> registry,
                      version_id |-> strftime(now), description |-> description]]
    /\ UNCHANGED <<storeVars, splitVars, profVars, regVars, saveVars, returned>>

\* version_path.mkdir() and the copy of the loaded registry's current version.
CreateVersionCopy(i) ==
    LET reg == vm[i].registry
        version_id == vm[i].version_id
    IN  /\ vm[i].pc = "loaded"
        /\ vm[i].op = "create_version"
        /\ \/ /\ version_id \in DOMAIN dirs
              /\ lastCall' = Raised("create_version", "FileExistsError")
              /\ vm' = [vm EXCEPT ![i] = NoRunningCall]
              /\ UNCHANGED dirs
           \/ /\ version_id \notin DOMAIN dirs
              /\ reg.current_version # NoVersion
              /\ \E part \in PartialCopies(dirs[reg.current_version]) :
                     dirs' = dirs @@ (version_id :> part)
              /\ lastCall' = Raised("create_version", "OSError")
              /\ vm' = [vm EXCEPT ![i] = NoRunningCall]
           \/ /\ version_id \notin DOMAIN dirs
              /\ dirs' = dirs @@ (version_id :>
                     IF reg.current_version # NoVersion
                     THEN dirs[reg.current_version]
                     ELSE <<>>)
              /\ vm' = [vm EXCEPT ![i].pc = "copied"]
              /\ UNCHANGED lastCall
        /\ UNCHANGED <<now, registry, head, builder, pc, job, retriever,
                       splitVars, profVars, regVars, saveVars, returned>>

\* create_version writing back the registry as it is on disk at the time of
\* the save, with the new entry added.
CreateVersionSave_reloading(i) ==
    LET version_id == vm[i].version_id
    IN  /\ vm[i].pc = "copied"
        /\ vm[i].op = "create_version"
        /\ registry' =
               [current_version |-> version_id,
                versions |-> Append(registry.versions,
                    [id |-> version_id, description |-> vm[i].description,
                     created_at |-> now])]
        /\ lastCall' = [Returned("create_version") EXCEPT !.version_id = version_id]
        /\ vm' = [vm EXCEPT ![i] = NoRunningCall]
        /\ returned' = returned \cup {version_id}
        /\ UNCHANGED <<now, dirs, head, builder, pc, job, retriever,
                       splitVars, profVars, regVars, saveVars>>

\* registry["versions"].append(...); registry["current_version"] = version_id;
\* self._save_registry(registry); return version_id
CreateVersionSave(i) ==
    LET reg == vm[i].registry
        version_id == vm[i].version_id
    IN  /\ vm[i].pc = "copied"
        /\ vm[i].op = "create_version"
        /\ registry' =
               [current_version |-> version_id,
                versions |-> Append(reg.versions,
                    [id |-> version_id, description |-> vm[i].description,
                     created_at |-> now])]
        /\ lastCall' = [Returned("create_version") EXCEPT !.version_id = version_id]
        /\ vm' = [vm EXCEPT ![i] = NoRunningCall]
        /\ returned' = returned \cup {version_id}
        /\ UNCHANGED <<now, dirs, head, builder, pc, job, retriever,
                       splitVars, profVars, regVars, saveVars>>

\* registry = self._load_registry(); the version_exists test.
RevertToVersionLoad(i) ==
    /\ vm[i].pc = "idle"
    /\ \E version_id \in VersionIds :
           IF \E n \in 1..Len(registry.versions) : registry.versions[n].id = version_id
           THEN /\ vm' = [vm EXCEPT ![i] =
                             [pc |-> "loaded", op |-> "revert_to_version",
                              registry |-> registry, version_id |-> version_id,
                              description |-> ""]]
                /\ UNCHANGED lastCall
           ELSE /\ lastCall' = [Returned("revert_to_version") EXCEPT
                                   !.version_id = version_id, !.ok = FALSE]
                /\ UNCHANGED vm
    /\ UNCHANGED <<now, registry, dirs, head, builder, pc, job, retriever,
                   splitVars, profVars, regVars, saveVars, returned>>

\* The copy of the version's files to the story directory.
RevertToVersionCopy(i) ==
    LET version_id == vm[i].version_id
    IN  /\ vm[i].pc = "loaded"
        /\ vm[i].op = "revert_to_version"
        /\ \/ /\ \E part \in PartialCopies(dirs[version_id]) :
                     /\ part # dirs[version_id]
                     /\ head' = CopyOver(part, head)
              /\ lastCall' = [Raised("revert_to_version", "OSError") EXCEPT
                                 !.version_id = version_id]
              /\ vm' = [vm EXCEPT ![i] = NoRunningCall]
           \/ /\ head' = CopyOver(dirs[version_id], head)
              /\ vm' = [vm EXCEPT ![i].pc = "copied"]
              /\ UNCHANGED lastCall
        /\ UNCHANGED <<now, registry, dirs, builder, pc, job, retriever,
                       splitVars, profVars, regVars, saveVars, returned>>

\* registry["current_version"] = version_id; self._save_registry(registry)
RevertToVersionSave(i) ==
    LET reg == vm[i].registry
        version_id == vm[i].version_id
    IN  /\ vm[i].pc = "copied"
        /\ vm[i].op = "revert_to_version"
        /\ registry' = [reg EXCEPT !.current_version = version_id]
        /\ lastCall' = [Returned("revert_to_version") EXCEPT
                           !.version_id = version_id, !.ok = TRUE]
        /\ vm' = [vm EXCEPT ![i] = NoRunningCall]
        /\ UNCHANGED <<now, dirs, head, builder, pc, job, retriever,
                       splitVars, profVars, regVars, saveVars, returned>>

(***************************************************************************)
(* Actions                                                                 *)
(***************************************************************************)
Tick ==
    /\ now < MaxNow
    /\ now' = now + 1
    /\ UNCHANGED <<registry, dirs, head, builder, pc, job, retriever, lastCall, splitVars, profVars, regVars, saveVars, concVars>>

\* A second of wall-clock time passes.
SecondPasses ==
    /\ strftime(now) < LastSecond
    /\ now' = now + TicksPerSecond
    /\ UNCHANGED <<registry, dirs, head, builder, pc, job, retriever, lastCall, splitVars,
                   profVars, regVars, saveVars, concVars>>

CreateVersion ==
    /\ pc = "idle"
    /\ \E description \in Descriptions : create_version(description)
    /\ UNCHANGED <<now, head, builder, pc, job, retriever, splitVars, profVars, regVars, saveVars, concVars>>

RevertToVersion ==
    /\ pc = "idle"
    /\ \E version_id \in VersionIds : revert_to_version(version_id)
    /\ UNCHANGED <<now, dirs, builder, pc, job, retriever, splitVars, profVars, regVars, saveVars, concVars>>

\* process_story up to build_index: analysis, split, embed, index.add.
ProcessStoryBuild ==
    /\ pc = "idle"
    /\ \E text \in Texts :
        \/ \* update_story_elements raises on an unusable analysis
           /\ lastCall' = Raised("process_story", "KeyError")
           /\ UNCHANGED <<builder, pc, job>>
        \/ \* embed_texts: np.vstack of no batches
           /\ split_story(text) = <<>>
           /\ lastCall' = Raised("process_story", "ValueError")
           /\ UNCHANGED <<builder, pc, job>>
        \/ /\ split_story(text) # <<>>
           /\ Len(builder) + Len(split_story(text)) <= MaxVectors
           /\ LET chunks_with_embeddings == embed_chunks(split_story(text))
              IN  /\ builder' = build_index(builder, chunks_with_embeddings)
                  /\ job' = [chunks |-> chunks_with_embeddings,
                             version_id |-> NoVersion]
           /\ pc' = "create_version"
           /\ UNCHANGED lastCall
    /\ UNCHANGED <<now, registry, dirs, head, retriever, splitVars, profVars, regVars, saveVars, concVars>>

ProcessStoryCreateVersion ==
    /\ pc = "create_version"
    /\ create_version("Initial setup")
    /\ IF lastCall'.raised = "none"
       THEN /\ pc' = "save_passages"
            /\ job' = [job EXCEPT !.version_id = lastCall'.version_id]
       ELSE /\ pc' = "idle"
            /\ job' = [chunks |-> <<>>, version_id |-> NoVersion]
    /\ UNCHANGED <<now, head, builder, retriever, splitVars, profVars, regVars, saveVars, concVars>>

\* save_embeddings writing under the version that was current before the call.
SavePassages_into_previous ==
    /\ pc = "save_passages"
    /\ LET target == IF Len(registry.versions) >= 2
                     THEN registry.versions[Len(registry.versions) - 1].id
                     ELSE job.version_id
       IN  dirs' = [dirs EXCEPT ![target] = ("passages.json" :> job.chunks) @@ @]
    /\ pc' = "save_index"
    /\ UNCHANGED <<now, registry, head, builder, job, retriever, lastCall, splitVars, profVars, regVars, saveVars, concVars>>

\* _save_artifacts: embedder.save_embeddings
SavePassages ==
    /\ pc = "save_passages"
    /\ dirs' = [dirs EXCEPT ![job.version_id] =
                   ("passages.json" :> job.chunks) @@ @]
    /\ pc' = "save_index"
    /\ UNCHANGED <<now, registry, head, builder, job, retriever, lastCall, splitVars, profVars, regVars, saveVars, concVars>>

\* save_index writing nothing.
SaveIndex_writes_nothing ==
    /\ pc = "save_index"
    /\ pc' = "save_metadata"
    /\ UNCHANGED <<now, registry, dirs, head, builder, job, retriever, lastCall, splitVars,
                   profVars, regVars, saveVars, concVars>>

\* _save_artifacts: index_builder.save_index
SaveIndex ==
    /\ pc = "save_index"
    /\ dirs' = [dirs EXCEPT ![job.version_id] =
                   ("faiss_index/index.faiss" :> builder) @@ @]
    /\ pc' = "save_metadata"
    /\ UNCHANGED <<now, registry, head, builder, job, retriever, lastCall, splitVars, profVars, regVars, saveVars, concVars>>

\* _save_artifacts: index_builder.save_metadata, and process_story returns
SaveMetadata ==
    /\ pc = "save_metadata"
    /\ dirs' = [dirs EXCEPT ![job.version_id] =
                   ("faiss_index/metadata.json" :> save_metadata(job.chunks)) @@ @]
    /\ pc' = "idle"
    /\ lastCall' = [Returned("process_story") EXCEPT !.version_id = job.version_id]
    /\ job' = [chunks |-> <<>>, version_id |-> NoVersion]
    /\ UNCHANGED <<now, registry, head, builder, retriever, splitVars, profVars, regVars, saveVars, concVars>>

\* A write of _save_artifacts fails: process_story raises.
SaveArtifactsRaise ==
    /\ pc \in {"save_passages", "save_index", "save_metadata"}
    /\ pc' = "idle"
    /\ lastCall' = [Raised("process_story", "OSError") EXCEPT
                       !.version_id = job.version_id]
    /\ job' = [chunks |-> <<>>, version_id |-> NoVersion]
    /\ UNCHANGED <<now, registry, dirs, head, builder, retriever, splitVars, profVars, regVars, saveVars, concVars>>

IndexBuilderSearch ==
    /\ pc = "idle"
    /\ \E q \in 0..MaxQuery, k \in 1..MaxK :
        \E indices \in search(builder, q, k) :
            lastCall' = [Returned("search") EXCEPT
                            !.k = k, !.n = Len(builder), !.indices = indices]
    /\ UNCHANGED <<now, registry, dirs, head, builder, pc, job, retriever, splitVars, profVars, regVars, saveVars, concVars>>

NewContextRetriever ==
    /\ pc = "idle"
    /\ _load_index
    /\ UNCHANGED <<now, registry, dirs, head, builder, pc, job, splitVars, profVars, regVars, saveVars, concVars>>

RetrieveContext ==
    /\ pc = "idle"
    /\ retriever.constructed
    /\ \E query \in 0..MaxQuery, num_chunks \in 1..MaxK :
           retrieve_context(query, num_chunks)
    /\ UNCHANGED <<now, registry, dirs, head, builder, pc, job, retriever, splitVars, profVars, regVars, saveVars, concVars>>

\* VersionManager(story_path) on a story directory as it was found.
NewVersionManager ==
    /\ ~vm_constructed
    /\ VersionManager_init
    /\ UNCHANGED <<now, dirs, head, builder, pc, job, retriever, splitVars, profVars,
                   saveVars, concVars>>

\* get_current_version() on the constructed manager
GetCurrentVersion ==
    /\ vm_constructed
    /\ IF _load_registry_raises # "none"
       THEN lastCall' = Raised("get_current_version", _load_registry_raises)
       ELSE lastCall' = [Returned("get_current_version") EXCEPT
                            !.version_id = get_current_version]
    /\ UNCHANGED <<now, registry, dirs, head, builder, pc, job, retriever, splitVars,
                   profVars, regVars, saveVars, concVars>>

\* list_versions() on the constructed manager
ListVersions ==
    /\ vm_constructed
    /\ IF _load_registry_raises # "none"
       THEN lastCall' = Raised("list_versions", _load_registry_raises)
       ELSE lastCall' = [Returned("list_versions") EXCEPT
                            !.n = Len(list_versions)]
    /\ UNCHANGED <<now, registry, dirs, head, builder, pc, job, retriever, splitVars,
                   profVars, regVars, saveVars, concVars>>

\* create_version(description) on the constructed manager: _load_registry first
LoadAndCreateVersion ==
    /\ vm_constructed
    /\ IF _load_registry_raises # "none"
       THEN /\ lastCall' = Raised("create_version", _load_registry_raises)
            /\ UNCHANGED <<registry, dirs>>
       ELSE \E description \in Descriptions : create_version(description)
    /\ UNCHANGED <<now, head, builder, pc, job, retriever, splitVars, profVars,
                   regVars, saveVars, concVars>>

\* revert_to_version(version_id) on the constructed manager: _load_registry first
LoadAndRevertToVersion ==
    /\ vm_constructed
    /\ IF _load_registry_raises # "none"
       THEN /\ lastCall' = Raised("revert_to_version", _load_registry_raises)
            /\ UNCHANGED <<registry, head>>
       ELSE \E version_id \in VersionIds : revert_to_version(version_id)
    /\ UNCHANGED <<now, dirs, builder, pc, job, retriever, splitVars, profVars,
                   regVars, saveVars, concVars>>

(***************************************************************************)
(* Spec: the version store under VersionManager calls and StorySetup's     *)
(* ingestion.                                                              *)
(***************************************************************************)
Init ==
    /\ now = 0
    /\ registry = _init_registry
    /\ dirs = <<>>
    /\ head = <<>>
    /\ builder = <<>>
    /\ pc = "idle"
    /\ job = [chunks |-> <<>>, version_id |-> NoVersion]
    /\ retriever = [constructed |-> FALSE, index |-> <<>>, metadata |-> <<>>,
                    version |-> NoVersion]
    /\ lastCall = NoCall
    /\ sp_text = <<>>
    /\ sp_chunk_size = 0
    /\ sp_chunk_overlap = 0
    /\ sp_start = 0
    /\ sp_chunks = <<>>
    /\ sp_pc = "done"
    /\ profiles_file = [exists |-> FALSE, data |-> <<>>]
    /\ committed = {}
    /\ created = <<>>
    /\ registry_file = "valid"
    /\ vm_constructed = TRUE
    /\ save = NoSave
    /\ vm = [i \in Instances |-> NoRunningCall]
    /\ returned = {}

Next ==
    \/ Tick
    \/ CreateVersion
    \/ RevertToVersion
    \/ ProcessStoryBuild
    \/ ProcessStoryCreateVersion
    \/ SavePassages
    \/ SaveIndex
    \/ SaveMetadata
    \/ SaveArtifactsRaise

Spec == Init /\ [][Next]_vars

(***************************************************************************)
(* SpecConcurrent: create_version and revert_to_version issued through two *)
(* VersionManager instances, interleaved at registry load, directory copy  *)
(* and registry save.  Nothing is ingested here: the version directories   *)
(* are created and copied with no files in them.                           *)
(***************************************************************************)
NextConcurrent ==
    \/ Tick
    \/ \E i \in Instances : CreateVersionLoad(i)
    \/ \E i \in Instances : CreateVersionCopy(i)
    \/ \E i \in Instances : CreateVersionSave(i)
    \/ \E i \in Instances : RevertToVersionLoad(i)
    \/ \E i \in Instances : RevertToVersionCopy(i)
    \/ \E i \in Instances : RevertToVersionSave(i)

SpecConcurrent == Init /\ [][NextConcurrent]_vars

(***************************************************************************)
(* SpecVersions: the calls of Spec over a longer time, taken second by     *)
(* second, so that three versions can be created.                          *)
(***************************************************************************)
NextVersions ==
    \/ SecondPasses
    \/ CreateVersion
    \/ RevertToVersion
    \/ ProcessStoryBuild
    \/ ProcessStoryCreateVersion
    \/ SavePassages
    \/ SaveIndex
    \/ SaveMetadata
    \/ SaveArtifactsRaise

SpecVersions == Init /\ [][NextVersions]_vars

(***************************************************************************)
(* SpecRetrieval: ingestion and reverts together with the searches of an   *)
(* IndexBuilder and a ContextRetriever.                                    *)
(***************************************************************************)
NextRetrieval ==
    \/ Tick
    \/ RevertToVersion
    \/ ProcessStoryBuild
    \/ ProcessStoryCreateVersion
    \/ SavePassages
    \/ SaveIndex
    \/ SaveMetadata
    \/ SaveArtifactsRaise
    \/ IndexBuilderSearch
    \/ NewContextRetriever
    \/ RetrieveContext

SpecRetrieval == Init /\ [][NextRetrieval]_vars

(***************************************************************************)
(* SpecRetriever: one ingestion and the ContextRetriever, within one second *)
(* of the clock: the story has no version, then one.                       *)
(***************************************************************************)
NextRetriever ==
    \/ RevertToVersion
    \/ ProcessStoryBuild
    \/ ProcessStoryCreateVersion
    \/ SavePassages
    \/ SaveIndex
    \/ SaveMetadata
    \/ SaveArtifactsRaise
    \/ NewContextRetriever
    \/ RetrieveContext

SpecRetriever == Init /\ [][NextRetriever]_vars

(***************************************************************************)
(* SpecProfiles: character profile updates over time.                      *)
(***************************************************************************)
NextProfiles ==
    \/ Tick
    \/ UpdateCharacterProfiles

SpecProfiles == Init /\ [][NextProfiles]_vars

(***************************************************************************)
(* SpecSplit: one split_text call on each text, chunk_size and overlap.    *)
(***************************************************************************)
NextSplit ==
    \/ SplitIteration
    \/ SplitReturn

\* split_text(text) is entered on a TextSplitter(chunk_size, chunk_overlap).
InitSplit ==
    /\ now = 0
    /\ registry = _init_registry
    /\ dirs = <<>>
    /\ head = <<>>
    /\ builder = <<>>
    /\ pc = "idle"
    /\ job = [chunks |-> <<>>, version_id |-> NoVersion]
    /\ retriever = [constructed |-> FALSE, index |-> <<>>, metadata |-> <<>>,
                    version |-> NoVersion]
    /\ lastCall = NoCall
    /\ sp_text \in InputTexts
    /\ sp_chunk_size \in 0..MaxChunkSize
    /\ sp_chunk_overlap \in 0..MaxOverlap
    /\ sp_start = 0
    /\ sp_chunks = <<>>
    /\ sp_pc = "loop"
    /\ profiles_file = [exists |-> FALSE, data |-> <<>>]
    /\ committed = {}
    /\ created = <<>>
    /\ registry_file = "valid"
    /\ vm_constructed = TRUE
    /\ save = NoSave
    /\ vm = [i \in Instances |-> NoRunningCall]
    /\ returned = {}

SpecSplit == InitSplit /\ [][NextSplit]_vars

\* SpecSplitRuns: the same call, whose loop is not suspended for ever: split_text
\* is synchronous code that keeps running until it returns.
SpecSplitRuns == SpecSplit /\ WF_vars(NextSplit)

(***************************************************************************)
(* SpecRegistry: a VersionManager constructed on a story directory whose   *)
(* index_registry.json is missing, unparseable or in order, and then used. *)
(***************************************************************************)
RegistryFiles == {"absent", "corrupt", "valid"}

InitRegistry ==
    /\ now = 0
    /\ registry = _init_registry
    /\ dirs = <<>>
    /\ head = <<>>
    /\ builder = <<>>
    /\ pc = "idle"
    /\ job = [chunks |-> <<>>, version_id |-> NoVersion]
    /\ retriever = [constructed |-> FALSE, index |-> <<>>, metadata |-> <<>>,
                    version |-> NoVersion]
    /\ lastCall = NoCall
    /\ sp_text = <<>>
    /\ sp_chunk_size = 0
    /\ sp_chunk_overlap = 0
    /\ sp_start = 0
    /\ sp_chunks = <<>>
    /\ sp_pc = "done"
    /\ profiles_file = [exists |-> FALSE, data |-> <<>>]
    /\ committed = {}
    /\ created = <<>>
    /\ registry_file \in RegistryFiles
    /\ vm_constructed = FALSE
    /\ save = NoSave
    /\ vm = [i \in Instances |-> NoRunningCall]
    /\ returned = {}

NextRegistry ==
    \/ Tick
    \/ NewVersionManager
    \/ GetCurrentVersion
    \/ ListVersions
    \/ LoadAndCreateVersion
    \/ LoadAndRevertToVersion

SpecRegistry == InitRegistry /\ [][NextRegistry]_vars

(***************************************************************************)
(* SpecExtraction: profile updates with the extraction calls and the       *)
(* network read.                                                           *)
(***************************************************************************)
NextExtraction ==
    \/ UpdateCharacterProfiles
    \/ GetCharacterNetwork
    \/ ExtractCharacterProfiles
    \/ ExtractStoryElements

SpecExtraction == Init /\ [][NextExtraction]_vars

(***************************************************************************)
(* SpecSave: _save_profiles calls taken step by step, with failures and    *)
(* crashes.                                                                *)
(***************************************************************************)
NextSave ==
    \/ Tick
    \/ SaveEnter
    \/ SaveLoad
    \/ SaveMerge
    \/ SaveWriteTemp
    \/ SaveRename
    \/ SaveCleanup
    \/ SaveCrash

SpecSave == Init /\ [][NextSave]_vars

(***************************************************************************)
(* The claims                                                              *)
(***************************************************************************)
StrictlyIncreasingIds(versions) ==
    \A i \in 1..Len(versions), j \in 1..Len(versions) :
        i < j => versions[i].id < versions[j].id

\* C1: every create_version call succeeds (whatever the time since the call
\* before it, I/O failures apart), the ids returned are pairwise distinct and
\* strictly increasing in call order, and current_version is the id returned last.
C1_EveryCreateVersionSucceeds ==
    (lastCall.op = "create_version" /\ lastCall.raised # "OSError") =>
        /\ lastCall.raised = "none"
        /\ StrictlyIncreasingIds(registry.versions)
        /\ registry.current_version = lastCall.version_id

\* Ordinal i of the saved index is the vector of the passage metadata[i] names.
Aligned(dir) ==
    LET index == dir["faiss_index/index.faiss"]
        metadata == dir["faiss_index/metadata.json"]
    IN  /\ Len(index) = Len(metadata)
        /\ \A i \in 1..Len(metadata) : index[i] = encode(metadata[i].text)

\* C5: when a process_story call has returned, the index saved for its version
\* holds one vector per entry of the metadata saved for that version, in the
\* same order.
C5_IndexAlignedWithMetadata ==
    (lastCall.op = "process_story" /\ lastCall.raised = "none") =>
        Aligned(dirs[lastCall.version_id])

\* C6 as claimed: from the moment a version id is registered, no step changes
\* the files under that version's directory.
C6_RegisteredVersionNeverChanges ==
    [][\A v \in RegisteredIds(registry) : dirs'[v] = dirs[v]]_vars

\* C6 as amended: the files under a registered version's directory are changed
\* only by the _save_artifacts writes of the process_story call that created
\* that version (the newest one); every other step leaves them as they are.
C6_OnlyItsCreatorWritesAVersion ==
    [][\A v \in RegisteredIds(registry) :
          dirs'[v] # dirs[v] =>
              /\ pc \in {"save_passages", "save_index", "save_metadata"}
              /\ job.version_id = v
              /\ registry.versions[Len(registry.versions)].id = v
              /\ registry.current_version = v]_vars

\* A second version, created as a copy of the first, has had its passages
\* replaced by its creator.
C6_Witness ==
    /\ pc = "save_index"
    /\ Len(registry.versions) = 2
    /\ "passages.json" \in DOMAIN dirs[registry.versions[1].id]
    /\ dirs[registry.versions[1].id]["passages.json"] # job.chunks
    /\ dirs[job.version_id]["passages.json"] = job.chunks

\* C7: either there are no versions and current_version is null, or there are
\* versions and current_version is the id of exactly one of them.
C7_ExactlyOneCurrent ==
    \/ /\ registry.versions = <<>>
       /\ registry.current_version = NoVersion
    \/ /\ registry.versions # <<>>
       /\ Cardinality({i \in 1..Len(registry.versions) :
              registry.versions[i].id = registry.current_version}) = 1

\* Two versions, and a revert has just repointed current_version to the older.
C7_Witness ==
    /\ Len(registry.versions) = 2
    /\ lastCall.op = "revert_to_version"
    /\ lastCall.ok
    /\ registry.current_version = registry.versions[1].id

\* C8: revert_to_version with an id that is not registered returns False and
\* changes neither the registry nor any file of the story directory.
C8_RevertUnknownChangesNothing ==
    [][(/\ pc = "idle"
        /\ lastCall'.op = "revert_to_version"
        /\ lastCall'.version_id \notin RegisteredIds(registry))
       => /\ lastCall'.raised = "none"
          /\ ~lastCall'.ok
          /\ registry' = registry
          /\ dirs' = dirs
          /\ head' = head]_vars

\* A revert to an unregistered id has returned False on a story that has a
\* version, files at its head and a directory of that id left by a failed call.
C8_Witness ==
    /\ lastCall.op = "revert_to_version"
    /\ ~lastCall.ok
    /\ lastCall.raised = "none"
    /\ lastCall.version_id \notin RegisteredIds(registry)
    /\ lastCall.version_id \in DOMAIN dirs
    /\ registry.versions # <<>>
    /\ head # <<>>

\* C10: a create_version call that raises leaves the registry as it was.
C10_FailedCreateLeavesRegistry ==
    [][(lastCall'.op = "create_version" /\ lastCall'.raised # "none")
       => registry' = registry]_vars

\* A create_version call has failed in its copy, leaving files under the new
\* id's directory, and that id is not registered.
C10_Witness ==
    /\ lastCall.op = "create_version"
    /\ lastCall.raised = "OSError"
    /\ strftime(now) \in DOMAIN dirs
    /\ dirs[strftime(now)] # <<>>
    /\ strftime(now) \notin RegisteredIds(registry)
    /\ registry.current_version # NoVersion

\* C4: a search for k results returns at most min(k, |P|) of them, in
\* non-decreasing distance order, with no slot filled by a placeholder or a
\* repeated passage.
C4_AtMostMinKResults ==
    /\ (lastCall.op = "search" /\ lastCall.raised = "none") =>
           /\ Len(lastCall.indices) <= Min(lastCall.k, lastCall.n)
           /\ \A i \in 1..Len(lastCall.indices) : lastCall.indices[i] >= 0
    /\ (lastCall.op = "retrieve_context" /\ lastCall.raised = "none") =>
           /\ Len(lastCall.chunks) <= Min(lastCall.k, lastCall.n)
           /\ \A i \in 1..Len(lastCall.chunks), j \in 1..Len(lastCall.chunks) :
                  i < j => lastCall.chunks[i].similarity_score
                               >= lastCall.chunks[j].similarity_score

\* The content of file name of a directory: <<content>>, or <<>> without the file.
FileOf(dir, name) == IF name \in DOMAIN dir THEN <<dir[name]>> ELSE <<>>

\* C9: a retrieve_context call answers from the index and metadata of the
\* version that is current_version at the time of the call.
C9_RetrievalUsesCurrentVersion ==
    lastCall.op = "retrieve_context" =>
        /\ <<retriever.index>> =
               FileOf(dirs[registry.current_version], "faiss_index/index.faiss")
        /\ <<retriever.metadata>> =
               FileOf(dirs[registry.current_version], "faiss_index/metadata.json")

\* C2: every character name that character_profiles.json has ever held is
\* still one of its keys.
C2_CommittedNamesStay == committed \subseteq DOMAIN profiles_file.data

\* C3: when split_text has returned (chunk_size >= 1), every position of the
\* text lies in [start_pos, end_pos) of some chunk.
C3_ChunksCoverText ==
    (sp_pc = "done" /\ sp_chunk_size >= 1) =>
        \A position \in 0..(Len(sp_text) - 1) :
            \E i \in 1..Len(sp_chunks) :
                /\ sp_chunks[i].start_pos <= position
                /\ position < sp_chunks[i].end_pos

\* C11: a manager constructed on an absent or unparseable registry file has
\* re-initialized it, and no get_current_version, list_versions or
\* create_version call fails on loading the registry.
C11_RegistryReinitializedAtFirstUse ==
    /\ vm_constructed =>
           /\ registry_file = "valid"
           /\ (lastCall.op = "VersionManager" =>
                   (registry.current_version = NoVersion /\ registry.versions = <<>>))
    /\ lastCall.op \in {"get_current_version", "list_versions", "create_version"} =>
           lastCall.raised \notin {"JSONDecodeError", "FileNotFoundError"}

\* C12: character_profiles.json changes only by the rename of a completely
\* written temporary file, to the complete new content; before that, and
\* whenever the call fails or the process dies, it holds the content it had
\* when the call began.
C12_ProfilesFileReplacedWhole ==
    [][/\ profiles_file' # profiles_file =>
              /\ save.pc = "rename"
              /\ save.temp = [exists |-> TRUE, complete |-> TRUE]
              /\ profiles_file' = [exists |-> TRUE, data |-> save.merged]
       /\ save'.pc \in {"load", "merge", "write", "rename", "cleanup", "crashed"} =>
              profiles_file' = save'.previous
       /\ (lastCall' # lastCall /\ lastCall'.raised # "none") =>
              profiles_file' = save.previous]_vars

\* A call on a file that holds profiles has failed part-way through writing
\* the temporary file: the file still holds what it held.
C12_Witness ==
    /\ save.pc = "cleanup"
    /\ save.temp = [exists |-> TRUE, complete |-> FALSE]
    /\ profiles_file.exists
    /\ profiles_file = save.previous
    /\ save.merged # profiles_file.data
    /\ save.merged # <<>>

\* The list-valued attributes that merge as sets.
SetFields ==
    {"aliases", "personality_traits", "goals", "fears", "lovers", "friends",
     "enemies", "key_events"}

FamilyKeys(family) ==
    {<<family[i].relation_type, family[i].name>> : i \in 1..Len(family)}

\* An update_character_profiles call has just saved its reply.
ProfilesSaved ==
    /\ now' = now
    /\ lastCall'.op = "update_character_profiles"
    /\ lastCall'.ok

\* C13: when a save merges into a stored profile of the same name, each
\* list-valued attribute of the result is the duplicate-free union of the stored
\* and the new values, and family is the union by (relation_type, name).
C13_MergeIsSetUnion ==
    [][ProfilesSaved =>
          LET new == root_format(lastCall'.reply, now)
          IN  \A name \in DOMAIN new \cap DOMAIN profiles_file.data :
                  LET existing == profiles_file.data[name]
                      merged == profiles_file'.data[name]
                  IN  /\ \A f \in SetFields :
                             /\ Range(merged[f]) = Range(Get(existing, f, <<>>))
                                                       \cup Range(Get(new[name], f, <<>>))
                             /\ Len(merged[f]) = Cardinality(Range(merged[f]))
                      /\ FamilyKeys(merged["family"]) =
                             FamilyKeys(Get(existing, "family", <<>>))
                                 \cup FamilyKeys(Get(new[name], "family", <<>>))
                      /\ Len(merged["family"]) =
                             Cardinality(FamilyKeys(merged["family"]))]_vars

\* Alice's stored profile (one alias, parent Carol) has been merged with a reply
\* naming two aliases, parent Carol and sibling Eve: two aliases, two relations.
C13_Witness ==
    /\ lastCall.op = "update_character_profiles"
    /\ lastCall.ok
    /\ lastCall.reply = ("Alice" :> Alice2)
    /\ "Alice" \in DOMAIN profiles_file.data
    /\ Range(Get(profiles_file.data["Alice"], "friends", <<>>)) = {"Bob"}
    /\ Range(profiles_file.data["Alice"]["aliases"]) = {"Al", "Ally"}
    /\ FamilyKeys(profiles_file.data["Alice"]["family"]) =
           {<<"parent", "Carol">>, <<"sibling", "Eve">>}
    /\ Len(profiles_file.data["Alice"]["family"]) = 2

\* C14: a save of the reply that the save before it stored leaves every
\* set-valued attribute of every profile it names equal, as a set, to what it was.
C14_SecondSaveChangesNoSet ==
    [][(/\ now' = now
        /\ lastCall.op = "update_character_profiles"
        /\ lastCall.ok
        /\ lastCall'.op = "update_character_profiles"
        /\ lastCall'.reply = lastCall.reply)
       => \A name \in DOMAIN root_format(lastCall.reply, now) :
              /\ name \in DOMAIN profiles_file.data
              /\ name \in DOMAIN profiles_file'.data
              /\ \A f \in SetFields :
                     Range(Get(profiles_file'.data[name], f, <<>>))
                         = Range(Get(profiles_file.data[name], f, <<>>))
              /\ FamilyKeys(Get(profiles_file'.data[name], "family", <<>>))
                     = FamilyKeys(Get(profiles_file.data[name], "family", <<>>))]_vars

\* Alice's profile, stored from a reply and merged with nothing but that same
\* reply, has been saved again.
C14_Witness ==
    /\ lastCall.op = "update_character_profiles"
    /\ lastCall.ok
    /\ lastCall.reply = ("Alice" :> Alice2)
    /\ "Alice" \in DOMAIN profiles_file.data
    /\ "style_embedding" \in DOMAIN profiles_file.data["Alice"]
    /\ profiles_file.data["Alice"]["friends"] = <<>>
    /\ Range(profiles_file.data["Alice"]["personality_traits"]) = {"brave"}

\* C15: a merge leaves created_at at the time the profile was first stored and
\* sets updated_at to the time of the merge, which is not before created_at.
C15_CreatedAtKeptUpdatedAtAdvances ==
    [][ProfilesSaved =>
          \A name \in DOMAIN root_format(lastCall'.reply, now)
                          \cap DOMAIN profiles_file.data :
              /\ profiles_file'.data[name]["created_at"] = created[name]
              /\ profiles_file'.data[name]["updated_at"] = now
              /\ profiles_file'.data[name]["updated_at"]
                     >= profiles_file'.data[name]["created_at"]
              /\ profiles_file'.data[name]["updated_at"]
                     >= Get(profiles_file.data[name], "updated_at", 0)]_vars

\* The one chunk that is the whole text.
WholeText == <<[text |-> sp_text, start_pos |-> 0, end_pos |-> Len(sp_text)]>>

\* C16 as claimed: split_text of a text shorter than chunk_size, the empty text
\* included, returns exactly one chunk, the whole text from 0 to len(text).
C16_ShortTextIsOneChunk ==
    (sp_pc = "done" /\ Len(sp_text) < sp_chunk_size) => sp_chunks = WholeText

\* C16 as amended: split_text of a non-empty text shorter than chunk_size
\* returns exactly one chunk, the whole text from 0 to len(text); split_text of
\* the empty text returns no chunk.
C16_ShortNonEmptyTextIsOneChunk ==
    (sp_pc = "done" /\ Len(sp_text) < sp_chunk_size) =>
        IF sp_text = <<>> THEN sp_chunks = <<>> ELSE sp_chunks = WholeText

\* split_text has returned a text of two characters, the first a sentence
\* terminator, as one chunk under chunk_size 3.
C16_Witness ==
    /\ sp_pc = "done"
    /\ sp_text = <<".", "a">>
    /\ sp_chunk_size = 3
    /\ sp_chunks = WholeText

\* C17: every chunk split_text has produced, for chunk_size >= 1, has
\* 0 <= start_pos < end_pos <= len(text) and text = source[start_pos:end_pos].
C17_ChunksAreNonEmptySlices ==
    sp_chunk_size >= 1 =>
        \A i \in 1..Len(sp_chunks) :
            /\ 0 <= sp_chunks[i].start_pos
            /\ sp_chunks[i].start_pos < sp_chunks[i].end_pos
            /\ sp_chunks[i].end_pos <= Len(sp_text)
            /\ sp_chunks[i].text =
                   Slice(sp_text, sp_chunks[i].start_pos, sp_chunks[i].end_pos)

\* The three artifacts of an ingested version.
Artifacts == {"passages.json", "faiss_index/index.faiss", "faiss_index/metadata.json"}

\* C18: when process_story has returned version id v, current_version is v and
\* the directory of v holds passages.json, the index and the metadata.
C18_CompletedIngestionIsCurrentAndWhole ==
    (lastCall.op = "process_story" /\ lastCall.raised = "none") =>
        /\ registry.current_version = lastCall.version_id
        /\ lastCall.version_id \in DOMAIN dirs
        /\ Artifacts \subseteq DOMAIN dirs[lastCall.version_id]

\* A second process_story call has returned: its version is current and holds
\* its own passages beside the index.
C18_Witness ==
    /\ lastCall.op = "process_story"
    /\ lastCall.raised = "none"
    /\ Len(registry.versions) = 2
    /\ registry.versions[2].id = lastCall.version_id
    /\ Artifacts \subseteq DOMAIN dirs[lastCall.version_id]
    /\ Len(dirs[lastCall.version_id]["faiss_index/index.faiss"]) >= 2

\* C19: a revert_to_version(id) that returns True has copied every file of
\* version id to the story directory and set current_version to id, and has
\* changed neither the directory of version id nor the versions list.
C19_RevertCopiesForward ==
    [][(/\ pc = "idle"
        /\ lastCall'.op = "revert_to_version"
        /\ lastCall'.ok)
       => LET id == lastCall'.version_id
          IN  /\ \A f \in DOMAIN dirs[id] :
                     f \in DOMAIN head' /\ head'[f] = dirs[id][f]
              /\ registry'.current_version = id
              /\ dirs'[id] = dirs[id]
              /\ registry'.versions = registry.versions]_vars

\* A revert from the second of two ingested versions to the first has put the
\* first version's artifacts, which differ from the second's, at the head.
C19_Witness ==
    /\ lastCall.op = "revert_to_version"
    /\ lastCall.ok
    /\ Len(registry.versions) = 2
    /\ registry.current_version = registry.versions[1].id
    /\ Artifacts \subseteq DOMAIN dirs[registry.versions[1].id]
    /\ Artifacts \subseteq DOMAIN dirs[registry.versions[2].id]
    /\ dirs[registry.versions[1].id] # dirs[registry.versions[2].id]
    /\ head = dirs[registry.versions[1].id]

\* C20: the directory a returning create_version has made holds exactly the
\* files of the version that was current when the call began, and no file if
\* there was none.
C20_NewVersionCopiesCurrent ==
    [][(/\ lastCall'.op = "create_version"
        /\ lastCall'.raised = "none"
        /\ lastCall'.version_id \notin DOMAIN dirs)
       => dirs'[lastCall'.version_id] =
              IF registry.current_version # NoVersion
              THEN dirs[registry.current_version]
              ELSE <<>>]_vars

\* After a revert from the second version to the first, create_version has made
\* a third version: a copy of the first, which differs from the second.
C20_Witness ==
    /\ lastCall.op = "create_version"
    /\ lastCall.raised = "none"
    /\ pc = "idle"
    /\ Len(registry.versions) = 3
    /\ registry.current_version = registry.versions[3].id
    /\ dirs[registry.versions[3].id] = dirs[registry.versions[1].id]
    /\ dirs[registry.versions[3].id] # dirs[registry.versions[2].id]
    /\ dirs[registry.versions[3].id] # <<>>

\* C21: while the registry has no current version, no ContextRetriever has been
\* constructed (its construction raises ValueError) and no retrieve_context call
\* has answered.
C21_NoRetrievalWithoutCurrentVersion ==
    registry.current_version = NoVersion =>
        /\ ~retriever.constructed
        /\ lastCall.op # "retrieve_context"
        /\ (lastCall.op = "ContextRetriever" => lastCall.raised = "ValueError")

\* ContextRetriever(story_path) has raised ValueError on a story that has no
\* version, and no retriever exists.
C21_Witness ==
    /\ registry.current_version = NoVersion
    /\ lastCall.op = "ContextRetriever"
    /\ lastCall.raised = "ValueError"
    /\ ~retriever.constructed

\* C23: under chunk_overlap > 0, the chunk after one that ends at end starts at
\* end - chunk_overlap snapped forward to just after the nearest sentence
\* terminator of the lookahead window, and at end - chunk_overlap, before end,
\* when the window holds none.
C23_NextChunkOverlapsPrevious ==
    (sp_chunk_size >= 1 /\ sp_chunk_overlap > 0) =>
        \A i \in 1..(Len(sp_chunks) - 1) :
            LET back == Max(sp_chunks[i].end_pos - sp_chunk_overlap, 0)
            IN  sp_chunks[i + 1].start_pos =
                    _find_sentence_boundary(sp_text, back, "forward")

\* The length of an optional string, None counting as empty.
TextLen(optional) == IF optional = None THEN 0 ELSE Len(optional[1])

\* C24: in a merge, each of role, occupation and profile_text is the new value
\* if that is strictly longer than the stored one, and the stored value otherwise.
C24_LongestStringWins ==
    [][ProfilesSaved =>
          LET new == root_format(lastCall'.reply, now)
          IN  \A name \in DOMAIN new \cap DOMAIN profiles_file.data :
                  LET existing == profiles_file.data[name]
                      merged == profiles_file'.data[name]
                      new_role == Get(new[name], "role", "")
                      new_occupation == Get(new[name], "occupation", "")
                      new_text == Get(new[name], "profile_text", None)
                      old_role == Get(existing, "role", "")
                      old_occupation == Get(existing, "occupation", "")
                      old_text == Get(existing, "profile_text", None)
                  IN  /\ merged["role"] =
                             IF Len(new_role) > Len(old_role)
                             THEN new_role ELSE old_role
                      /\ merged["occupation"] =
                             IF Len(new_occupation) > Len(old_occupation)
                             THEN new_occupation ELSE old_occupation
                      /\ merged["profile_text"] =
                             IF TextLen(new_text) > TextLen(old_text)
                             THEN new_text ELSE old_text]_vars

\* The chunks produced so far start at strictly increasing positions and are
\* no more than the text has characters.
StartsAdvance ==
    /\ \A i \in 1..(Len(sp_chunks) - 1) :
           sp_chunks[i].start_pos < sp_chunks[i + 1].start_pos
    /\ Len(sp_chunks) <= Len(sp_text)

\* C28: split_text returns on every text, chunk_size >= 0 and chunk_overlap >= 0;
\* the start positions of its chunks are strictly increasing and it produces at
\* most len(text) chunks.
C28_SplitTextTerminates == []StartsAdvance /\ <>(sp_pc = "done")

\* split_text has returned on a chunk_size of 0, where the first chunk is empty
\* and the next start does not advance: one chunk.
C28_Witness ==
    /\ sp_pc = "done"
    /\ sp_chunk_size = 0
    /\ Len(sp_text) >= 2
    /\ Len(sp_chunks) = 1
    /\ sp_start = 0

\* C29: after a process_story call that raised, current_version is not the
\* version that call created: it is what it was before the call.
C29_FailedIngestionLeavesCurrentVersion ==
    (lastCall.op = "process_story" /\ lastCall.raised # "none") =>
        \/ lastCall.version_id = NoVersion
        \/ registry.current_version # lastCall.version_id

\* C30: no step changes or removes a file under a version directory other than
\* the _save_artifacts writes of the process_story call that created that
\* version, no step removes a version directory, and the versions list changes
\* only by an entry appended at its end, so that it is in creation order.
C30_HistoryIsNeverRewritten ==
    [][/\ \A v \in DOMAIN dirs :
              /\ v \in DOMAIN dirs'
              /\ dirs'[v] # dirs[v] =>
                     /\ pc \in {"save_passages", "save_index", "save_metadata"}
                     /\ job.version_id = v
                     /\ lastCall.op = "create_version"
                     /\ lastCall.version_id = v
       /\ \/ registry'.versions = registry.versions
          \/ /\ Len(registry'.versions) = Len(registry.versions) + 1
             /\ SubSeq(registry'.versions, 1, Len(registry.versions))
                    = registry.versions
       /\ \A i \in 1..(Len(registry'.versions) - 1) :
              /\ registry'.versions[i].id < registry'.versions[i + 1].id
              /\ registry'.versions[i].created_at
                     <= registry'.versions[i + 1].created_at]_vars

\* With two versions that differ, the second one ingested, a revert to the first
\* has returned: both directories are there and the list holds both, in order.
C30_Witness ==
    /\ lastCall.op = "revert_to_version"
    /\ lastCall.ok
    /\ Len(registry.versions) = 2
    /\ registry.versions[1].id < registry.versions[2].id
    /\ registry.current_version = registry.versions[1].id
    /\ Artifacts \subseteq DOMAIN dirs[registry.versions[2].id]
    /\ dirs[registry.versions[1].id] # dirs[registry.versions[2].id]
    /\ head # <<>>
    /\ builder # <<>>
    /\ now = MaxNow

\* The names a profile relates its character to.
RelatedNames(profile) ==
    Range(Get(profile, "lovers", <<>>)) \cup Range(Get(profile, "friends", <<>>))
        \cup Range(Get(profile, "enemies", <<>>))
        \cup {Get(profile, "family", <<>>)[i].name :
                  i \in 1..Len(Get(profile, "family", <<>>))}

\* C25: the network read for a stored profile holds names only, and exactly the
\* names of its lovers, friends, enemies and family relations.
C25_NetworkIsUnionOfRelations ==
    lastCall.op = "get_character_network" =>
        /\ DOMAIN lastCall.result = DOMAIN profiles_file.data
        /\ \A character \in DOMAIN lastCall.result :
               /\ lastCall.result[character].relations = <<>>
               /\ Range(lastCall.result[character].names)
                      = RelatedNames(profiles_file.data[character])

\* An extracted entity that meets the field invariants: a non-empty name and a
\* non-empty role.
ValidEntity(name, data) ==
    /\ name # ""
    /\ "role" \in DOMAIN data
    /\ data["role"] # None
    /\ data["role"][1] # ""

\* C26: extract_character_profiles on a batch that holds an entity failing its
\* field invariants does not raise, and returns exactly the valid entities.
C26_InvalidEntityIsSkipped ==
    (lastCall.op = "extract_character_profiles" /\ ~lastCall.unparsed) =>
        /\ lastCall.raised = "none"
        /\ DOMAIN lastCall.result =
               {name \in DOMAIN lastCall.reply :
                   ValidEntity(name, lastCall.reply[name])}

\* C27: a call that was given a reply from which no JSON can be had has raised.
C27_ParseFailureIsRaised ==
    lastCall.unparsed => lastCall.raised # "none"

NoCallRunning == \A i \in Instances : vm[i].pc = "idle"

\* C22 (as stated): once the overlapping calls have all returned, every
\* version id a create_version call returned is in the registry's versions.
C22_ReturnedIdsAreRegistered ==
    NoCallRunning => returned \subseteq RegisteredIds(registry)

\* C22: the last save wins, and what it writes is the registry its own call
\* loaded with its own change: after a create_version call saves, the versions
\* are those it loaded and its own, and its own is current; after a
\* revert_to_version call saves, the versions are those it loaded and the one
\* reverted to is current.  A version another call registered between the load
\* and the save is no longer listed; its directory stays on disk.
C22_LastSaveWritesWhatItsCallLoaded ==
    /\ [][\A i \in Instances :
            (vm[i].pc = "copied" /\ vm'[i].pc = "idle") =>
                /\ registry'.current_version = vm[i].version_id
                /\ RegisteredIds(registry') =
                       RegisteredIds(vm[i].registry) \cup
                           (IF vm[i].op = "create_version"
                            THEN {vm[i].version_id} ELSE {})
                /\ (registry = vm[i].registry =>
                       returned' \ RegisteredIds(registry') =
                           returned \ RegisteredIds(registry))]_vars
    /\ [](returned \subseteq DOMAIN dirs)

\* Two create_version calls overlapped and both returned: one of the two ids
\* is not in the registry.
C22_Witness ==
    /\ NoCallRunning
    /\ Cardinality(returned) = 2
    /\ Cardinality(RegisteredIds(registry)) = 1
    /\ lastCall.op = "create_version"

====
